---- MODULE Spec2Model ----
(***************************************************************************)
(* Model of nodes/MakeCropsDetectThem.py: the constructor of               *)
(* MakeCropsDetectThem, which cuts an image into overlapping crops         *)
(* (get_crops_xy) and then runs the detector on every crop                 *)
(* (_detect_objects).                                                      *)
(*                                                                         *)
(* Arithmetic.  The source computes with Python floats:                    *)
(*     cross_koef = 1 - overlap / 100, int(...), round(...).               *)
(* The model computes the same quantities exactly over the integers, with  *)
(* every value scaled by 100.  The overlap percentages of the model        *)
(* (Overlaps) are those for which overlap/100 and 1 - overlap/100 are      *)
(* binary fractions, so that every float operation of the source is exact  *)
(* and the integer computation below is the float computation.             *)
(* int() truncates toward zero; round() rounds half to even.               *)
(*                                                                         *)
(* Arrays are modelled by their shape <<rows, columns>> (numpy's .shape)   *)
(* and by the buffer holding their pixels: buffer 0 is the resized canvas, *)
(* buffer k > 0 would be a private buffer of crop number k.                *)
(***************************************************************************)
EXTENDS Integers, Sequences, FiniteSets, TLC

\* ---------------------------------------------------------------- bounds
MaxDim == 4        \* image height and width range over 0..MaxDim
MaxShape == 3      \* shape_x and shape_y range over MinShape..MaxShape
MinShape == 0 - 1

Dims == 0..MaxDim
Shapes == MinShape..MaxShape
\* overlap percentages: valid ones (0, 25, 50) and degenerate ones (100, 150)
Overlaps == {0, 25, 50, 100, 150}

\* the two scenarios of the specification's regression fixtures
Scenarios ==
    { [image |-> <<1000, 1000>>, shape_x |-> 500, shape_y |-> 500,
       overlap_x |-> 0, overlap_y |-> 0],
      [image |-> <<1000, 1000>>, shape_x |-> 700, shape_y |-> 700,
       overlap_x |-> 25, overlap_y |-> 25] }

\* constructor arguments the model explores
Arguments ==
    [image : Dims \X Dims, shape_x : Shapes, shape_y : Shapes,
     overlap_x : Overlaps, overlap_y : Overlaps] \cup Scenarios

VARIABLES
    image,                 \* self.image, as its shape <<rows, columns>>
    shape_x, shape_y,      \* self.shape_x, self.shape_y
    overlap_x, overlap_y,  \* self.overlap_x, self.overlap_y
    resize_results,        \* self.resize_results
    crops,                 \* self.crops: sequence of CropElement records
    source_image_resized,  \* shape of the canvas made by cv2.resize, <<>> before
    resizes,               \* number of cv2.resize calls that returned
    pc,                    \* position of the constructor
    idx,                   \* position of the loop of _detect_objects (1-based)
    exc,                   \* exception that left the constructor, "none" if none
    written,               \* pixels overwritten after the run: {<<buffer, x, y>>}
    writer                 \* number of the crop the write went through, 0 if none

vars == <<image, shape_x, shape_y, overlap_x, overlap_y, resize_results, crops,
          source_image_resized, resizes, pc, idx, exc, written, writer>>

config == <<image, shape_x, shape_y, overlap_x, overlap_y, resize_results>>

\* ------------------------------------------------------ Python arithmetic
Abs(n) == IF n < 0 THEN 0 - n ELSE n

\* int(a / b) for b # 0: the quotient truncated toward zero
TruncDiv(a, b) ==
    IF (a >= 0) = (b > 0) THEN Abs(a) \div Abs(b) ELSE 0 - (Abs(a) \div Abs(b))

\* round(n / d) for d > 0: to the nearest integer, a tie to the even one
RoundHalfEven(n, d) ==
    LET q == n \div d
        r == n - q * d
    IN  IF 2 * r < d THEN q
        ELSE IF 2 * r > d THEN q + 1
        ELSE IF q % 2 = 0 THEN q ELSE q + 1

\* numpy basic slicing a[start:stop] along an axis of length n: number of
\* elements selected (negative indices count from the end, then both clamp)
SliceIndex(k, n) ==
    LET m == IF k < 0 THEN k + n ELSE k
    IN  IF m < 0 THEN 0 ELSE IF m > n THEN n ELSE m

SliceLen(start, stop, n) ==
    LET a == SliceIndex(start, n)
        b == SliceIndex(stop, n)
    IN  IF b > a THEN b - a ELSE 0

\* ----------------------------------------------------------- get_crops_xy
\* 100 * cross_koef_x, 100 * cross_koef_y
cross_koef_x == 100 - overlap_x
cross_koef_y == 100 - overlap_y

\* the divisions of the step counts raise ZeroDivisionError
ZeroDivision == shape_y * cross_koef_y = 0 \/ shape_x * cross_koef_x = 0

y_steps == TruncDiv((image[1] - shape_y) * 100, shape_y * cross_koef_y) + 1
x_steps == TruncDiv((image[2] - shape_x) * 100, shape_x * cross_koef_x) + 1

y_new == RoundHalfEven((y_steps - 1) * (shape_y * cross_koef_y) + 100 * shape_y, 100)
\* x_new with the step count taken for the number of strides
x_new_one_stride_more ==
    RoundHalfEven(x_steps * (shape_x * cross_koef_x) + 100 * shape_x, 100)

x_new == RoundHalfEven((x_steps - 1) * (shape_x * cross_koef_x) + 100 * shape_x, 100)

\* cv2.resize(image_full, (x_new, y_new)) fails on an empty source image and
\* on a destination size that is not positive
ResizeFails == image[1] = 0 \/ image[2] = 0 \/ x_new <= 0 \/ y_new <= 0

\* x_start computed with the coefficient of the other axis
x_start_cross_y(j) == TruncDiv(shape_x * j * cross_koef_y, 100)

x_start(j) == TruncDiv(shape_x * j * cross_koef_x, 100)
y_start(i) == TruncDiv(shape_y * i * cross_koef_y, 100)

\* the x check with >= for >
ResidualX_ge(xs) == xs + shape_x >= x_new

\* the checks for residuals
ResidualX(xs) == xs + shape_x > x_new
ResidualY(ys) == ys + shape_y > y_new

\* the slice with shape_y for the extent along x
im_temp_shape_y_twice(xs, ys) ==
    [rows   |-> SliceLen(ys, ys + shape_y, y_new),
     cols   |-> SliceLen(xs, xs + shape_y, x_new),
     buffer |-> 0]

\* image_full[y_start:y_start + shape_y, x_start:x_start + shape_x]:
\* a view into the canvas (buffer 0), not a copy
im_temp(xs, ys) ==
    [rows   |-> SliceLen(ys, ys + shape_y, y_new),
     cols   |-> SliceLen(xs, xs + shape_x, x_new),
     buffer |-> 0]

\* the record built by CropElement(...): it keeps what it is given
CropElement(crop, number_of_crop, xs, ys) ==
    [crop |-> crop, number_of_crop |-> number_of_crop,
     x_start |-> xs, y_start |-> ys, calls |-> <<>>]

RECURSIVE ColLoop(_, _)
\* for j in range(x_steps), from j on, in row i: the origins <<x_start, y_start>>
\* of the cells that pass both residual checks, in the order they are appended
ColLoop(i, j) ==
    IF j >= x_steps THEN <<>>
    ELSE LET xs == x_start(j)
             ys == y_start(i)
         IN  IF ResidualX(xs) THEN ColLoop(i, j + 1)
             ELSE IF ResidualY(ys) THEN ColLoop(i, j + 1)
             ELSE <<(<<xs, ys>>)>> \o ColLoop(i, j + 1)

RECURSIVE RowLoop(_)
\* for i in range(y_steps), from i on
RowLoop(i) ==
    IF i >= y_steps THEN <<>>
    ELSE ColLoop(i, 0) \o RowLoop(i + 1)

\* count starts at 0 and is incremented once before each append, so the record
\* appended as the k-th element of the list carries count = k
count(k) == k

data_all_crops ==
    LET origins == RowLoop(0)
    IN  [k \in 1..Len(origins) |->
            CropElement(im_temp(origins[k][1], origins[k][2]), count(k),
                        origins[k][1], origins[k][2])]

\* -------------------------------------------------------- _detect_objects
\* the loop body without the test of self.resize_results
LoopBody_unconditional(flag) ==
    <<"calculate_inference", "calculate_real_values", "resize_results">>

\* the calls the loop body makes on one crop, in order
LoopBody(flag) ==
    <<"calculate_inference", "calculate_real_values">>
        \o (IF flag THEN <<"resize_results">> ELSE <<>>)

\* ------------------------------------------------------------------- Init
Init ==
    /\ \E a \in Arguments :
          /\ image = a.image
          /\ shape_x = a.shape_x
          /\ shape_y = a.shape_y
          /\ overlap_x = a.overlap_x
          /\ overlap_y = a.overlap_y
    /\ resize_results \in BOOLEAN
    /\ crops = <<>>
    /\ source_image_resized = <<>>
    /\ resizes = 0
    /\ pc = "init"
    /\ idx = 1
    /\ exc = "none"
    /\ written = {}
    /\ writer = 0

\* ---------------------------------------------------------------- actions
Raise(e) ==
    /\ pc' = "raised"
    /\ exc' = e

\* get_crops_xy: a step count divides by zero
GetCropsXYZeroDivision ==
    /\ pc = "init"
    /\ ZeroDivision
    /\ Raise("ZeroDivisionError")
    /\ UNCHANGED <<config, crops, source_image_resized, resizes, idx, written, writer>>

\* get_crops_xy: cv2.resize raises
GetCropsXYResizeError ==
    /\ pc = "init"
    /\ ~ZeroDivision
    /\ ResizeFails
    /\ Raise("cv2.error")
    /\ UNCHANGED <<config, crops, source_image_resized, resizes, idx, written, writer>>

\* get_crops_xy returns the list of crops, which __init__ stores in self.crops
GetCropsXY ==
    /\ pc = "init"
    /\ ~ZeroDivision
    /\ ~ResizeFails
    /\ source_image_resized' = <<y_new, x_new>>
    /\ resizes' = resizes + 1
    /\ crops' = data_all_crops
    /\ pc' = "detect"
    /\ idx' = 1
    /\ UNCHANGED <<config, exc, written, writer>>

\* the next call of the loop body on the crop at idx
NextCall ==
    LoopBody(resize_results)[Len(crops[idx].calls) + 1]

InLoop ==
    /\ pc = "detect"
    /\ idx <= Len(crops)

Called(name) ==
    LET done == Append(crops[idx].calls, name)
    IN  /\ crops' = [crops EXCEPT ![idx].calls = done]
        /\ idx' = IF Len(done) = Len(LoopBody(resize_results)) THEN idx + 1 ELSE idx

\* crop.calculate_inference(...) returns
CalculateInference ==
    /\ InLoop
    /\ NextCall = "calculate_inference"
    /\ Called("calculate_inference")
    /\ UNCHANGED <<config, source_image_resized, resizes, pc, exc, written, writer>>

\* crop.calculate_inference(...) raises: nothing in _detect_objects or
\* __init__ catches it
CalculateInferenceRaises ==
    /\ InLoop
    /\ NextCall = "calculate_inference"
    /\ Raise("InferenceError")
    /\ UNCHANGED <<config, crops, source_image_resized, resizes, idx, written, writer>>

\* crop.calculate_real_values()
CalculateRealValues ==
    /\ InLoop
    /\ NextCall = "calculate_real_values"
    /\ Called("calculate_real_values")
    /\ UNCHANGED <<config, source_image_resized, resizes, pc, exc, written, writer>>

\* crop.resize_results()
ResizeResults ==
    /\ InLoop
    /\ NextCall = "resize_results"
    /\ Called("resize_results")
    /\ UNCHANGED <<config, source_image_resized, resizes, pc, exc, written, writer>>

\* the loop of _detect_objects is exhausted; __init__ returns
DetectObjectsReturn ==
    /\ pc = "detect"
    /\ idx > Len(crops)
    /\ pc' = "done"
    /\ UNCHANGED <<config, crops, source_image_resized, resizes, idx, exc, written, writer>>

\* the pixel of the buffer behind pixel (dx, dy) of the crop numbered k
Cell(k, dx, dy) ==
    IF crops[k].crop.buffer = 0
    THEN <<0, crops[k].x_start + dx, crops[k].y_start + dy>>
    ELSE <<crops[k].crop.buffer, dx, dy>>

\* a consumer of the results writes one corner pixel of one crop: crop.crop[dy, dx] = v
WriteCropPixel ==
    /\ pc = "done"
    /\ \E k \in 1..Len(crops) :
          /\ crops[k].crop.rows > 0
          /\ crops[k].crop.cols > 0
          /\ \E dx \in {0, crops[k].crop.cols - 1}, dy \in {0, crops[k].crop.rows - 1} :
                written' = written \cup {Cell(k, dx, dy)}
          /\ writer' = k
    /\ pc' = "mutated"
    /\ UNCHANGED <<config, crops, source_image_resized, resizes, idx, exc>>

Next ==
    \/ GetCropsXYZeroDivision
    \/ GetCropsXYResizeError
    \/ GetCropsXY
    \/ CalculateInference
    \/ CalculateInferenceRaises
    \/ CalculateRealValues
    \/ ResizeResults
    \/ DetectObjectsReturn
    \/ WriteCropPixel

Spec == Init /\ [][Next]_vars

\* ----------------------------------------------------------------- claims
\* get_crops_xy has returned its list
Returned == pc \in {"detect", "done", "mutated"} \/ exc = "InferenceError"

PositiveShapes == shape_x > 0 /\ shape_y > 0
OverlapsInRange == overlap_x \in 0..99 /\ overlap_y \in 0..99

\* the valid configurations: positive tile, image at least as large, overlap in [0,100)
Valid ==
    /\ PositiveShapes
    /\ OverlapsInRange
    /\ image[2] >= shape_x
    /\ image[1] >= shape_y

Records == 1..Len(crops)

\* C1: for a valid configuration every returned record lies inside the resized
\* canvas (x_start >= 0, y_start >= 0, x_start + shape_x <= canvas width,
\* y_start + shape_y <= canvas height) and its crop has exactly shape_y rows and
\* shape_x columns.
C1_TilesInsideCanvas ==
    (Returned /\ Valid) =>
        \A k \in Records :
            /\ crops[k].x_start >= 0
            /\ crops[k].y_start >= 0
            /\ crops[k].x_start + shape_x <= source_image_resized[2]
            /\ crops[k].y_start + shape_y <= source_image_resized[1]
            /\ crops[k].crop.rows = shape_y
            /\ crops[k].crop.cols = shape_x

\* a grid of several non-square tiles whose last tile touches the right and
\* bottom edges of the canvas
C1_Witness ==
    /\ Returned /\ Valid
    /\ shape_x # shape_y
    /\ Len(crops) >= 4
    /\ crops[Len(crops)].x_start > 0
    /\ crops[Len(crops)].y_start > 0
    /\ crops[Len(crops)].x_start + shape_x = source_image_resized[2]
    /\ crops[Len(crops)].y_start + shape_y = source_image_resized[1]

\* C2: for a valid configuration get_crops_xy returns exactly x_steps * y_steps
\* records (no cell is skipped as a residual) and their number_of_crop values are
\* 1, 2, ..., x_steps * y_steps in list order.
C2_CountAndNumbering ==
    (Returned /\ Valid) =>
        /\ Len(crops) = x_steps * y_steps
        /\ \A k \in Records : crops[k].number_of_crop = k

\* a grid with more than one row and more than one column, with an overlap
\* whose stride is fractional
C2_Witness ==
    /\ Returned /\ Valid
    /\ x_steps >= 2 /\ y_steps >= 2
    /\ overlap_x = 25
    /\ Len(crops) = x_steps * y_steps
    /\ crops[Len(crops)].number_of_crop = x_steps * y_steps

\* C3 as stated: the resized canvas is at least as large as the source image in
\* both axes.
C3_CanvasAtLeastImage ==
    (Returned /\ Valid) =>
        /\ source_image_resized[2] >= image[2]
        /\ source_image_resized[1] >= image[1]

\* C3 amended: in an axis where the image is at least as large as the tile the
\* canvas is never larger than the image and never smaller than the tile
\* (shape <= new <= image), so the resize only shrinks or keeps that axis; the
\* canvas is at least as large as the image only in an axis where the image is
\* smaller than the tile (image <= new <= shape).
C3_CanvasBounds ==
    (Returned /\ PositiveShapes /\ OverlapsInRange) =>
        /\ image[2] >= shape_x =>
              (shape_x <= source_image_resized[2] /\ source_image_resized[2] <= image[2])
        /\ image[1] >= shape_y =>
              (shape_y <= source_image_resized[1] /\ source_image_resized[1] <= image[1])
        /\ image[2] < shape_x =>
              (image[2] <= source_image_resized[2] /\ source_image_resized[2] <= shape_x)
        /\ image[1] < shape_y =>
              (image[1] <= source_image_resized[1] /\ source_image_resized[1] <= shape_y)

\* a valid configuration whose canvas is strictly smaller than the image in one
\* axis, and an image narrower than the tile whose canvas is wider than the image
C3_Witness ==
    /\ Returned /\ PositiveShapes /\ OverlapsInRange
    /\ image[1] >= shape_y
    /\ source_image_resized[1] < image[1]
    /\ image[2] < shape_x
    /\ source_image_resized[2] > image[2]

\* C4: an image narrower than shape_x or lower than shape_y (positive shapes,
\* overlaps in [0,100)) yields exactly one record, at origin (0,0), covering a
\* canvas of shape_x by shape_y; the list is never empty and no step count is
\* below 1.
C4_SmallImageOneTile ==
    (/\ pc # "init"
     /\ PositiveShapes /\ OverlapsInRange
     /\ image[1] >= 1 /\ image[2] >= 1
     /\ (image[2] < shape_x \/ image[1] < shape_y)) =>
        /\ x_steps >= 1
        /\ y_steps >= 1
        /\ Returned
        /\ Len(crops) = 1
        /\ crops[1].x_start = 0
        /\ crops[1].y_start = 0
        /\ source_image_resized = <<shape_y, shape_x>>

\* C5: for a valid configuration every pixel of the resized canvas lies inside
\* at least one returned tile rectangle.
C5_FullCoverage ==
    (Returned /\ Valid) =>
        \A x \in 0..(source_image_resized[2] - 1) :
            \A y \in 0..(source_image_resized[1] - 1) :
                \E k \in Records :
                    /\ crops[k].x_start <= x
                    /\ x < crops[k].x_start + shape_x
                    /\ crops[k].y_start <= y
                    /\ y < crops[k].y_start + shape_y

\* the run has ended: the constructor returned or an exception left it
Ended == pc \in {"done", "mutated", "raised"}

\* C6: an inference call that raises does not abort the run: the run does not
\* end with the detector's exception leaving the constructor, and when it has
\* ended every record has been through the whole loop body, except a record
\* whose inference call raised, which has no results.
C6_InferenceFailureIsolated ==
    (Ended /\ Returned) =>
        /\ pc # "raised"
        /\ \A k \in Records :
              \/ crops[k].calls = LoopBody(resize_results)
              \/ (exc = "InferenceError" /\ k = idx /\ crops[k].calls = <<>>)

\* a configuration the specification calls an error
Invalid ==
    \/ shape_x <= 0
    \/ shape_y <= 0
    \/ overlap_x >= 100
    \/ overlap_y >= 100
    \/ image[1] = 0
    \/ image[2] = 0

\* C7: an invalid configuration ends in an error raised before any resize, any
\* tile and any inference call; it never completes normally.
C7_InvalidConfigFailsFast ==
    Invalid =>
        /\ pc \in {"init", "raised"}
        /\ resizes = 0
        /\ crops = <<>>

\* pixel <<b, x, y>> of buffer b is one of the pixels of the crop numbered k
InCrop(cell, k) ==
    /\ cell[1] = crops[k].crop.buffer
    /\ cell[1] = 0 =>
          /\ crops[k].x_start <= cell[2]
          /\ cell[2] < crops[k].x_start + crops[k].crop.cols
          /\ crops[k].y_start <= cell[3]
          /\ cell[3] < crops[k].y_start + crops[k].crop.rows

\* C8: a write to the pixels of one record's crop leaves the resized canvas and
\* the crop pixels of every other record unchanged.
C8_CropsAreCopies ==
    pc = "mutated" =>
        \A cell \in written :
            /\ cell[1] # 0
            /\ \A k \in Records : k # writer => ~InCrop(cell, k)

\* floor(shape * n * (1 - overlap / 100)) for n >= 0
GridOrigin(shape, n, overlap) == (shape * n * (100 - overlap)) \div 100

Processed == IF resize_results
             THEN <<"calculate_inference", "calculate_real_values", "resize_results">>
             ELSE <<"calculate_inference", "calculate_real_values">>

\* s is an initial part of t
IsPrefix(s, t) ==
    /\ Len(s) <= Len(t)
    /\ \A n \in 1..Len(s) : s[n] = t[n]

\* C10: the canvas is resized at most once, and exactly once before the first
\* inference call; the calls on each record are the inference, then
\* calculate_real_values, then resize_results if and only if resize_results is
\* true; a record receives its first call only when the record before it has
\* received all of its calls (hence, in the same state, so has every earlier
\* record); a run that returns has processed every record.
C10_SequentialPipeline ==
    /\ resizes <= 1
    /\ \A k \in Records :
          /\ IsPrefix(crops[k].calls, Processed)
          /\ crops[k].calls # <<>> =>
                /\ resizes = 1
                /\ k > 1 => crops[k - 1].calls = Processed
    /\ pc = "done" =>
          /\ resizes = 1
          /\ \A k \in Records : crops[k].calls = Processed

\* the second record is between its calls while the first has all three of its own
C10_Witness ==
    /\ pc = "detect"
    /\ resize_results
    /\ Len(crops) >= 3
    /\ crops[1].calls = Processed
    /\ Len(crops[2].calls) = 2
    /\ crops[3].calls = <<>>

====
